---- MODULE Spec2Model ----
(***************************************************************************)
(* pdf2svgslides: src/src/main.rs.                                         *)
(*                                                                         *)
(* Three specifications over one set of variables:                         *)
(*   Spec        one run of main(): the page loop, render_page and         *)
(*               render_thumbnail, step by step, every fallible call       *)
(*               either succeeding or failing;                             *)
(*   SpecRepack  the pixel repacking loop of render_thumbnail;             *)
(*   SpecScale   check_dimension, scale_ratio and scale_rect on one pair   *)
(*               of page dimensions.                                       *)
(*                                                                         *)
(* Machine numbers keep their width.  A u32 is a sequence of 32 bits       *)
(* (index 1 is the least significant bit), an i32 is an integer in         *)
(* MinI32..MaxI32, an f64 is a sign, a 53-bit significand and an exponent, *)
(* and f64 division and multiplication round to nearest, ties to even.     *)
(***************************************************************************)
EXTENDS Integers, Sequences, FiniteSets, TLC

(***************************************************************************)
(* Natural numbers of any size, as sequences of bits, least significant    *)
(* bit first.                                                              *)
(***************************************************************************)
MaxOf(S) == CHOOSE x \in S : \A y \in S : y <= x

Bit(a, i) == IF i >= 1 /\ i <= Len(a) THEN a[i] ELSE 0

BitLen(a) == LET S == {i \in 1..Len(a) : a[i] = 1} IN IF S = {} THEN 0 ELSE MaxOf(S)

\* A sequence built by a function constructor, as an explicit sequence.
AsSeq(f) == f \o <<>>

Zeros(n) == AsSeq([i \in 1..n |-> 0])

\* a * 2^n
Shl(a, n) == AsSeq([i \in 1..(Len(a) + n) |-> IF i <= n THEN 0 ELSE a[i - n]])

\* a \div 2^n
Shr(a, n) == AsSeq([i \in 1..(IF Len(a) > n THEN Len(a) - n ELSE 0) |-> a[i + n]])

\* a without its leading zero bits
Trim(a) == SubSeq(a, 1, BitLen(a))

\* -1, 0, 1 as a < b, a = b, a > b
BigCmp(a, b) ==
    LET n == IF Len(a) > Len(b) THEN Len(a) ELSE Len(b)
        D == {i \in 1..n : Bit(a, i) # Bit(b, i)}
    IN  IF D = {} THEN 0 ELSE IF Bit(a, MaxOf(D)) = 1 THEN 1 ELSE -1

\* The carry into bit i of a + b: the bits below i where a and b agree
\* decide it, the highest of them first.
CarryInto(a, b, i) ==
    LET S == {k \in 1..(i - 1) : Bit(a, k) = Bit(b, k)}
    IN  IF S = {} THEN 0 ELSE Bit(a, MaxOf(S))

BigAdd(a, b) ==
    LET n == (IF Len(a) > Len(b) THEN Len(a) ELSE Len(b)) + 1
    IN  AsSeq([i \in 1..n |-> (Bit(a, i) + Bit(b, i) + CarryInto(a, b, i)) % 2])

\* The borrow from bit i of a - b: the highest bit below i where a and b differ
\* decides it.
BorrowFrom(a, b, i) ==
    LET S == {k \in 1..(i - 1) : Bit(a, k) # Bit(b, k)}
    IN  IF S = {} THEN 0 ELSE Bit(b, MaxOf(S))

\* a - b, for a >= b
BigSub(a, b) ==
    AsSeq([i \in 1..Len(a) |-> (Bit(a, i) - Bit(b, i) - BorrowFrom(a, b, i) + 2) % 2])

\* The sum of a * 2^(i-1) over the bits i of b in lo..hi that are set.
RECURSIVE BigMulRange(_, _, _, _)
BigMulRange(a, b, lo, hi) ==
    IF lo > hi THEN <<>>
    ELSE IF lo = hi THEN (IF b[lo] = 1 THEN Shl(a, lo - 1) ELSE <<>>)
    ELSE LET mid == (lo + hi) \div 2
         IN  Trim(BigAdd(BigMulRange(a, b, lo, mid), BigMulRange(a, b, mid + 1, hi)))

BigMul(a, b) == BigMulRange(a, b, 1, Len(b))

\* One step of the long division by den: the next bit of the dividend
\* enters the remainder r, and the quotient q gets its next bit.
BigDivStep(qr, bit, den) ==
    LET r2 == Trim(<<bit>> \o qr[2])
    IN  IF BigCmp(r2, den) >= 0
        THEN <<<<1>> \o qr[1], Trim(BigSub(r2, den))>>
        ELSE <<<<0>> \o qr[1], r2>>

\* The long division of num by den (den > 0) over the bits hi, hi - 1, .., lo
\* of num, from the state qr.  The range is halved, and the state after the
\* upper half computed before the lower half starts, to keep the evaluation
\* shallow.
RECURSIVE BigDivRange(_, _, _, _, _)
BigDivRange(num, den, hi, lo, qr) ==
    IF hi < lo THEN qr
    ELSE IF hi = lo THEN BigDivStep(qr, num[hi], den)
    ELSE LET mid == (lo + hi + 1) \div 2
         IN  CHOOSE x \in {BigDivRange(num, den, mid - 1, lo, upper) :
                           upper \in {BigDivRange(num, den, hi, mid, qr)}} : TRUE

\* <<quotient, remainder>> of num by den
BigDivMod(num, den) ==
    IF den = <<1>> THEN <<Trim(num), <<>>>>
    ELSE LET qr == BigDivRange(num, den, Len(num), 1, <<<<>>, <<>>>>)
         IN  <<Trim(qr[1]), qr[2]>>

\* The bits of a natural number n < 2^31.
RECURSIVE BitsOfNat(_)
BitsOfNat(n) == IF n = 0 THEN <<>> ELSE <<n % 2>> \o BitsOfNat(n \div 2)

\* The natural number of a bit sequence below 2^31.
RECURSIVE NatOfBitsFrom(_, _)
NatOfBitsFrom(a, i) == IF i > Len(a) THEN 0 ELSE a[i] + 2 * NatOfBitsFrom(a, i + 1)

NatOfBits(a) == NatOfBitsFrom(Trim(a), 1)

(***************************************************************************)
(* u32 and i32.                                                            *)
(***************************************************************************)
MaxI32 == 2147483647

MinI32 == (-MaxI32) - 1

\* A u32 is its 32 bits.
U32Bits(a) == AsSeq([i \in 1..32 |-> Bit(a, i)])

\* The u32 of a natural number n < 2^31, and of 2^31 + n.
U32Of(n) == U32Bits(BitsOfNat(n))

U32High(n) == [U32Of(n) EXCEPT ![32] = 1]

U32Max == AsSeq([i \in 1..32 |-> 1])

\* `number as i32` (line 72): the same 32 bits read in two's complement.
AsI32(u) ==
    LET low == NatOfBits(SubSeq(u, 1, 31))
    IN  IF u[32] = 0 THEN low ELSE (low - 1073741824) - 1073741824

\* `x - 1` on an i32 (line 72).  The subtraction overflows for x = MinI32
\* only: a build with overflow checks panics there, one without wraps.
I32Sub1(x) ==
    IF x = MinI32 THEN {[panic |-> TRUE, value |-> 0], [panic |-> FALSE, value |-> MaxI32]}
    ELSE {[panic |-> FALSE, value |-> x - 1]}

\* i32::try_from(u32) (lines 139-140): fails above i32::MAX.
I32TryFrom(u) == IF u[32] = 1 THEN [ok |-> FALSE, value |-> 0]
                 ELSE [ok |-> TRUE, value |-> NatOfBits(u)]

\* std::cmp::max on u32 (line 180)
U32MaxOf(a, b) == IF BigCmp(a, b) >= 0 THEN a ELSE b

(***************************************************************************)
(* f64: (-1)^sign * man * 2^exp, man of exactly 53 bits with its top bit   *)
(* set, or empty for zero.  The values of this program are far from the    *)
(* subnormal and the infinite range, so the exponent is unbounded.         *)
(***************************************************************************)
F64Zero == [sign |-> 0, man |-> <<>>, exp |-> 0]

\* The f64 nearest to (big + f) * 2^exp, where 0 <= f < 1 and f > 0 iff
\* sticky; ties go to the even significand.
F64Round(sign, big, exp, sticky) ==
    LET L == BitLen(big)
    IN  IF L = 0 THEN F64Zero
        ELSE IF L <= 53
        THEN [sign |-> sign, man |-> Shl(Trim(big), 53 - L), exp |-> exp - (53 - L)]
        ELSE LET d     == L - 53
                 keep  == Shr(Trim(big), d)
                 rest  == sticky \/ \E i \in 1..(d - 1) : big[i] = 1
                 up    == big[d] = 1 /\ (rest \/ keep[1] = 1)
                 m     == IF up THEN Trim(BigAdd(keep, <<1>>)) ELSE keep
             IN  IF Len(m) > 53
                 THEN [sign |-> sign, man |-> Shr(m, 1), exp |-> exp + d + 1]
                 ELSE [sign |-> sign, man |-> m, exp |-> exp + d]

\* The number of trailing zero bits of a nonzero a.
TrailingZeros(a) == (CHOOSE i \in 1..Len(a) : a[i] = 1 /\ \A k \in 1..(i - 1) : a[k] = 0) - 1

\* k * 2^e as an f64, for a natural number k < 2^31 (exact).
F64Of(sign, k, e) == F64Round(sign, BitsOfNat(k), e, FALSE)

\* f64::from(u32) (lines 184, 188, 196): exact
F64FromU32(u) == F64Round(0, u, 0, FALSE)

\* x * y (line 188)
F64Mul(x, y) ==
    IF x.man = <<>> \/ y.man = <<>> THEN F64Zero
    ELSE LET zx == TrailingZeros(x.man)
             zy == TrailingZeros(y.man)
             a  == Shr(x.man, zx)
             b  == Shr(y.man, zy)
             p  == IF Len(a) <= Len(b) THEN BigMul(b, a) ELSE BigMul(a, b)
         IN  F64Round((x.sign + y.sign) % 2, p, x.exp + zx + y.exp + zy, FALSE)

\* x / y for y # 0 (line 184)
F64Div(x, y) ==
    IF x.man = <<>> THEN F64Zero
    ELSE LET zx  == TrailingZeros(x.man)
             zy  == TrailingZeros(y.man)
             num == Shr(x.man, zx)
             den == Shr(y.man, zy)
             t   == IF 56 + Len(den) > Len(num) THEN 56 + Len(den) - Len(num) ELSE 0
             qr  == BigDivMod(Shl(num, t), den)
         IN  F64Round((x.sign + y.sign) % 2, qr[1], (x.exp + zx) - (y.exp + zy) - t,
                      qr[2] # <<>>)

\* x < 0. (line 192)
F64Negative(x) == x.sign = 1 /\ x.man # <<>>

\* x > y, for y > 0 (line 196)
F64Greater(x, y) ==
    /\ x.sign = 0
    /\ x.man # <<>>
    /\ \/ x.exp > y.exp
       \/ x.exp = y.exp /\ BigCmp(x.man, y.man) > 0

\* `x as u32` (lines 188, 200): toward zero, saturating at 0 and u32::MAX
F64AsU32(x) ==
    IF x.man = <<>> \/ x.sign = 1 THEN U32Of(0)
    ELSE IF x.exp >= 0 THEN U32Max
    ELSE LET n == Trim(Shr(x.man, -x.exp))
         IN  IF Len(n) > 32 THEN U32Max ELSE U32Bits(n)

(***************************************************************************)
(* The dimension and scale calculator.                                     *)
(***************************************************************************)
\* line 135
MaxThumbnailSide == 512

\* check_dimension (lines 191-201)
check_dimension(dim) ==
    IF F64Negative(dim) THEN [ok |-> FALSE, msg |-> "value is negative", value |-> U32Of(0)]
    ELSE IF F64Greater(dim, F64FromU32(U32Max))
    THEN [ok |-> FALSE, msg |-> "value is too large", value |-> U32Of(0)]
    ELSE [ok |-> TRUE, msg |-> "", value |-> F64AsU32(dim)]

\* scale_ratio (lines 179-185)
scale_ratio(w, h, max_size) ==
    LET side == U32MaxOf(w, h)
    IN  IF side = U32Of(0) THEN F64Zero
        ELSE F64Div(F64FromU32(max_size), F64FromU32(side))

\* scale_rect (lines 187-189)
scale_rect(w, h, ratio) ==
    <<F64AsU32(F64Mul(F64FromU32(w), ratio)), F64AsU32(F64Mul(F64FromU32(h), ratio))>>

(***************************************************************************)
(* Bounds of the model.                                                    *)
(***************************************************************************)
\* pages of the document: 0..MaxPages
MaxPages == 2

\* page numbers given with --pages: 1..MaxSelected of them
MaxSelected == 2

\* pixels of a raster buffer: 0..MaxPixels
MaxPixels == 4

\* page widths and heights of SpecScale: 0..MaxDim
MaxDim == 50

(***************************************************************************)
(* The inputs.                                                             *)
(***************************************************************************)
\* What `--pages` can hold once parsed (line 37): any u32.  The model draws
\* from the numbers around the document's range and the ones whose cast to
\* i32 is negative; U32High(0) is 2^31, where the subtraction overflows.
RequestedNumbers == {U32Of(n) : n \in 0..(MaxPages + 1)} \cup {U32High(0), U32Max}

\* A page's bounding-box extents <<x2 - x1, y2 - y1>> (lines 92-93): 0 x 0,
\* 1024 x 512, a negative width, a width above u32::MAX.
PageSizes == { <<F64Zero, F64Zero>>,
               <<F64Of(0, 1024, 0), F64Of(0, 512, 0)>>,
               <<F64Of(1, 1, -1), F64Of(0, 10, 0)>>,
               <<F64Of(0, 1, 33), F64Of(0, 1, 0)>> }

NoError == [msg |-> "", page |-> 0, cause |-> ""]

VARIABLES
    page_count,     \* doc.n_pages() (line 65), an i32
    page_numbers,   \* Args.page_numbers (line 24): <<>> for None, <<numbers>> for Some
    boxes,          \* the document: page index -> bounding-box extents
    pages,          \* the iterator of line 71: what it has still to yield
    pc,             \* where main() is
    i,              \* the loop variable of line 77
    page_number,    \* line 82
    width, height,  \* lines 92-93
    ratio,          \* line 135
    thumb,          \* <<thumb_width, thumb_height>>, line 136
    files,          \* the files of out_dir: <<digits of the name, extension>>
    error,          \* the error main() returned
    status,         \* "running", "success" (exit 0), "failure" (exit 1), "panic" (exit 101)
    log,            \* the steps taken: [k: the iteration, i: its index, step]
    thumbnail_data, \* line 155
    rgb_data,       \* line 156
    ri, rj,         \* i and j of the loop of lines 158-165
    rpc,            \* where the repacking block is
    dim_w, dim_h,   \* SpecScale: the f64 dimensions given to render_thumbnail
    spc,            \* SpecScale: where render_thumbnail is
    scaled          \* SpecScale: [ok, width, height, ratio, thumb]

run_vars == <<page_count, page_numbers, boxes, pages, pc, i, page_number, width, height,
              ratio, thumb, files, error, status, log>>

repack_vars == <<thumbnail_data, rgb_data, ri, rj, rpc>>

scale_vars == <<dim_w, dim_h, spc, scaled>>

vars == <<run_vars, repack_vars, scale_vars>>

(***************************************************************************)
(* render_thumbnail, up to the thumbnail's dimensions (lines 131-136).     *)
(***************************************************************************)
thumbnail_geometry(w, h) ==
    LET cw == check_dimension(w)
        ch == check_dimension(h)
        r  == scale_ratio(cw.value, ch.value, U32Of(MaxThumbnailSide))
    IN  IF ~cw.ok THEN [ok |-> FALSE, cause |-> "invalid width", ratio |-> F64Zero,
                        thumb |-> <<U32Of(0), U32Of(0)>>]
        ELSE IF ~ch.ok THEN [ok |-> FALSE, cause |-> "invalid height", ratio |-> F64Zero,
                             thumb |-> <<U32Of(0), U32Of(0)>>]
        ELSE [ok |-> TRUE, cause |-> "", ratio |-> r,
              thumb |-> scale_rect(cw.value, ch.value, r)]

\* thumbnail_geometry on the page sizes of the model's documents, computed
\* once: the pairs <<size, geometry>>.
PageGeometry == {<<s, thumbnail_geometry(s[1], s[2])>> : s \in PageSizes}

GeometryOf(w, h) == (CHOOSE e \in PageGeometry : e[1] = <<w, h>>)[2]

(***************************************************************************)
(* File names (lines 111, 171).                                            *)
(***************************************************************************)
RECURSIVE Digits(_)
Digits(n) == IF n < 10 THEN <<n>> ELSE Digits(n \div 10) \o <<n % 10>>

\* format!("{:03}", n) for n >= 0: the decimal digits, zero-padded to 3
Format03(n) == LET d == Digits(n) IN IF Len(d) >= 3 THEN d ELSE Zeros(3 - Len(d)) \o d

SvgName(n) == <<Format03(n), "svg">>

JpgName(n) == <<Format03(n), "jpg">>

(***************************************************************************)
(* One run of main().                                                      *)
(***************************************************************************)
IdleRepack ==
    /\ thumbnail_data = <<>>
    /\ rgb_data = <<>>
    /\ ri = 0
    /\ rj = 0
    /\ rpc = "idle"

IdleScale ==
    /\ dim_w = F64Zero
    /\ dim_h = F64Zero
    /\ spc = "idle"
    /\ scaled = [ok |-> FALSE, cause |-> "", ratio |-> F64Zero, thumb |-> <<U32Of(0), U32Of(0)>>]

IdleRun ==
    /\ page_count = 0
    /\ page_numbers = <<>>
    /\ boxes = <<>>
    /\ pages = <<>>
    /\ pc = "idle"
    /\ i = 0
    /\ page_number = 0
    /\ width = F64Zero
    /\ height = F64Zero
    /\ ratio = F64Zero
    /\ thumb = <<U32Of(0), U32Of(0)>>
    /\ files = {}
    /\ error = NoError
    /\ status = "running"
    /\ log = <<>>

\* The state when main() has parsed its arguments and opened the document
\* (lines 54-65).
Init ==
    /\ page_count \in 0..MaxPages
    /\ page_numbers \in {<<>>} \cup
         {<<ns>> : ns \in UNION {[1..n -> RequestedNumbers] : n \in 1..MaxSelected}}
    /\ boxes \in [0..(page_count - 1) -> PageSizes]
    /\ pages = <<>>
    /\ pc = "main"
    /\ i = 0
    /\ page_number = 0
    /\ width = F64Zero
    /\ height = F64Zero
    /\ ratio = F64Zero
    /\ thumb = <<U32Of(0), U32Of(0)>>
    /\ files = {}
    /\ error = NoError
    /\ status = "running"
    /\ log = <<>>
    /\ IdleRepack
    /\ IdleScale

\* The iteration main() is in: how many items the iterator has yielded.
Iteration ==
    IF page_numbers # <<>> THEN Len(page_numbers[1]) - Len(pages) ELSE page_count - Len(pages)

Logged(step) == log' = Append(log, [k |-> Iteration, i |-> i, step |-> step])

\* ReturnErr with the error recorded and the loop going on to the next page.
ReturnErrAndContinue(e) ==
    /\ error' = e
    /\ status' = status
    /\ pc' = "for"

\* An error returned from main() (`?`, bail!): the process ends with exit
\* code 1 and the error printed.
ReturnErr(e) ==
    /\ error' = e
    /\ status' = "failure"
    /\ pc' = "exit"

\* A panic (overflow checks, unwrap): the process ends with exit code 101.
Panic(m) ==
    /\ error' = [msg |-> m, page |-> 0, cause |-> "panic"]
    /\ status' = "panic"
    /\ pc' = "exit"

Continue(to) ==
    /\ pc' = to
    /\ UNCHANGED <<error, status>>

\* PagesIter with the items in reverse order.
PagesIterReversed ==
    LET items == IF page_numbers # <<>> THEN page_numbers[1]
                 ELSE [n \in 1..page_count |-> n - 1]
    IN  [k \in 1..Len(items) |-> items[Len(items) + 1 - k]]

\* The items of Box::new(numbers.into_iter().map(..)) and of 0..page_count
\* (lines 71-75), not yet mapped: the closure of line 72 runs when the loop
\* asks for the item.
PagesIter ==
    IF page_numbers # <<>> THEN page_numbers[1]
    ELSE [n \in 1..page_count |-> n - 1]

\* lines 65-75
Main ==
    /\ pc = "main"
    /\ IF page_count = 0
       THEN /\ pc' = "exit"
            /\ status' = "success"
            /\ UNCHANGED <<error, pages>>
       ELSE /\ pages' = PagesIter
            /\ Continue("for")
    /\ UNCHANGED <<page_count, page_numbers, boxes, i, page_number, width, height, ratio,
                   thumb, files, log>>
    /\ UNCHANGED <<repack_vars, scale_vars>>

\* line 101: the iterator is exhausted
MainReturnOk ==
    /\ pc = "for"
    /\ pages = <<>>
    /\ pc' = "exit"
    /\ status' = "success"
    /\ UNCHANGED <<page_count, page_numbers, boxes, pages, i, page_number, width, height,
                   ratio, thumb, files, error, log>>
    /\ UNCHANGED <<repack_vars, scale_vars>>

\* lines 77-82: the next item of the iterator, the closure of line 72 on it
\* when the pages were given, and the range check
ForNext ==
    /\ pc = "for"
    /\ pages # <<>>
    /\ pages' = Tail(pages)
    /\ \E r \in (IF page_numbers # <<>> THEN I32Sub1(AsI32(Head(pages)))
                 ELSE {[panic |-> FALSE, value |-> Head(pages)]}) :
          IF r.panic
          THEN /\ Panic("attempt to subtract with overflow")
               /\ UNCHANGED <<i, page_number>>
          ELSE /\ i' = r.value
               /\ IF r.value < 0 \/ r.value >= page_count
                  THEN /\ ReturnErr([msg |-> "invalid page number", page |-> r.value,
                                     cause |-> ""])
                       /\ UNCHANGED page_number
                  ELSE /\ page_number' = 1 + r.value
                       /\ Continue("page")
    /\ log' = Append(log, [k |-> Iteration + 1, i |-> i', step |-> "next"])
    /\ UNCHANGED <<page_count, page_numbers, boxes, width, height, ratio, thumb, files>>
    /\ UNCHANGED <<repack_vars, scale_vars>>

\* lines 83-85
AccessPage ==
    /\ pc = "page"
    /\ \/ Continue("bounding_box")
       \/ ReturnErr([msg |-> "error accessing page", page |-> page_number, cause |-> ""])
    /\ Logged("page")
    /\ UNCHANGED <<page_count, page_numbers, boxes, pages, i, page_number, width, height,
                   ratio, thumb, files>>
    /\ UNCHANGED <<repack_vars, scale_vars>>

\* lines 86-93
BoundingBox ==
    /\ pc = "bounding_box"
    /\ \/ /\ width' = boxes[i][1]
          /\ height' = boxes[i][2]
          /\ Continue("svg_surface")
       \/ /\ ReturnErr([msg |-> "error getting bounding box for page", page |-> page_number,
                        cause |-> ""])
          /\ UNCHANGED <<width, height>>
    /\ Logged("bounding_box")
    /\ UNCHANGED <<page_count, page_numbers, boxes, pages, i, page_number, ratio, thumb,
                   files>>
    /\ UNCHANGED <<repack_vars, scale_vars>>

\* What render_page's errors become in main() (line 96).
RenderPageErr(cause) == [msg |-> "error rendering page", page |-> page_number, cause |-> cause]

\* What render_thumbnail's errors become in main() (line 98).
RenderThumbnailErr(cause) ==
    [msg |-> "error rendering thumbnail for page", page |-> page_number, cause |-> cause]

\* lines 111-116: the SVG surface is created on the file NNN.svg
SvgSurface ==
    /\ pc = "svg_surface"
    /\ \/ /\ files' = files \cup {SvgName(page_number)}
          /\ Continue("svg_context")
       \/ /\ ReturnErr(RenderPageErr("error creating SVG surface"))
          /\ UNCHANGED files
    /\ Logged("svg_surface")
    /\ UNCHANGED <<page_count, page_numbers, boxes, pages, i, page_number, width, height,
                   ratio, thumb>>
    /\ UNCHANGED <<repack_vars, scale_vars>>

\* line 117
SvgContext ==
    /\ pc = "svg_context"
    /\ \/ Continue("svg_render")
       \/ ReturnErr(RenderPageErr("error creating Cairo context"))
    /\ Logged("svg_context")
    /\ UNCHANGED <<page_count, page_numbers, boxes, pages, i, page_number, width, height,
                   ratio, thumb, files>>
    /\ UNCHANGED <<repack_vars, scale_vars>>

\* lines 118-121
SvgRender ==
    /\ pc = "svg_render"
    /\ \/ Continue("check_dimension")
       \/ ReturnErr(RenderPageErr("error rendering page"))
    /\ Logged("svg_render")
    /\ UNCHANGED <<page_count, page_numbers, boxes, pages, i, page_number, width, height,
                   ratio, thumb, files>>
    /\ UNCHANGED <<repack_vars, scale_vars>>

\* lines 131-136
CheckDimension ==
    /\ pc = "check_dimension"
    /\ LET g == GeometryOf(width, height)
       IN  IF g.ok
           THEN /\ ratio' = g.ratio
                /\ thumb' = g.thumb
                /\ Continue("image_surface")
           ELSE /\ ReturnErr(RenderThumbnailErr(g.cause))
                /\ UNCHANGED <<ratio, thumb>>
    /\ Logged("check_dimension")
    /\ UNCHANGED <<page_count, page_numbers, boxes, pages, i, page_number, width, height,
                   files>>
    /\ UNCHANGED <<repack_vars, scale_vars>>

\* lines 137-143: the dimensions go to cairo as they are; whether it makes
\* the surface is cairo's answer
ImageSurface ==
    /\ pc = "image_surface"
    /\ IF ~I32TryFrom(thumb[1]).ok THEN ReturnErr(RenderThumbnailErr("width too big"))
       ELSE IF ~I32TryFrom(thumb[2]).ok THEN ReturnErr(RenderThumbnailErr("height too big"))
       ELSE \/ Continue("image_context")
            \/ ReturnErr(RenderThumbnailErr("error creating surface"))
    /\ Logged("image_surface")
    /\ UNCHANGED <<page_count, page_numbers, boxes, pages, i, page_number, width, height,
                   ratio, thumb, files>>
    /\ UNCHANGED <<repack_vars, scale_vars>>

\* line 146
ImageContext ==
    /\ pc = "image_context"
    /\ \/ Continue("image_render")
       \/ ReturnErr(RenderThumbnailErr("error creating Cairo context"))
    /\ Logged("image_context")
    /\ UNCHANGED <<page_count, page_numbers, boxes, pages, i, page_number, width, height,
                   ratio, thumb, files>>
    /\ UNCHANGED <<repack_vars, scale_vars>>

\* lines 147-150
ImageRender ==
    /\ pc = "image_render"
    /\ \/ Continue("take_data")
       \/ ReturnErr(RenderThumbnailErr("error rendering page thumbnail"))
    /\ Logged("image_render")
    /\ UNCHANGED <<page_count, page_numbers, boxes, pages, i, page_number, width, height,
                   ratio, thumb, files>>
    /\ UNCHANGED <<repack_vars, scale_vars>>

\* lines 154-169: the surface's data (4 bytes for each of its pixels) is
\* repacked, and the image buffer built from it
TakeData ==
    /\ pc = "take_data"
    /\ LET pixels == NatOfBits(thumb[1]) * NatOfBits(thumb[2])
           len    == 4 * pixels
           rgb    == len - len \div 4
       IN  \/ IF rgb >= 3 * pixels THEN Continue("save")
              ELSE Panic("unwrap on None")
           \/ ReturnErr(RenderThumbnailErr("error accessing image data"))
    /\ Logged("take_data")
    /\ UNCHANGED <<page_count, page_numbers, boxes, pages, i, page_number, width, height,
                   ratio, thumb, files>>
    /\ UNCHANGED <<repack_vars, scale_vars>>

\* lines 171-176: a failed save may leave the file it had begun
Save ==
    /\ pc = "save"
    /\ \/ /\ files' = files \cup {JpgName(page_number)}
          /\ Continue("for")
       \/ /\ ReturnErr(RenderThumbnailErr("error saving thumbnail"))
          /\ \/ files' = files \cup {JpgName(page_number)}
             \/ UNCHANGED files
    /\ Logged("save")
    /\ UNCHANGED <<page_count, page_numbers, boxes, pages, i, page_number, width, height,
                   ratio, thumb>>
    /\ UNCHANGED <<repack_vars, scale_vars>>

Next ==
    \/ Main
    \/ MainReturnOk
    \/ ForNext
    \/ AccessPage
    \/ BoundingBox
    \/ SvgSurface
    \/ SvgContext
    \/ SvgRender
    \/ CheckDimension
    \/ ImageSurface
    \/ ImageContext
    \/ ImageRender
    \/ TakeData
    \/ Save

Spec == Init /\ [][Next]_vars

(***************************************************************************)
(* The pixel repacker (lines 154-165) on one raster buffer.                *)
(***************************************************************************)
\* the byte values the model draws from
Bytes == {0, 1, 128, 255}

PixelSamples == {<<10, 20, 30, 40>>, <<255, 0, 255, 7>>}

\* The data of an image surface: 4 bytes for each of its n pixels.  The
\* first pixel takes every combination of Bytes, the others are samples.
RasterBuffers ==
    UNION {
        IF n = 0 THEN {<<>>}
        ELSE {first \o rest :
                first \in [1..4 -> Bytes],
                rest \in {AsSeq([k \in 1..(4 * (n - 1)) |->
                                   px[((k - 1) \div 4) + 1][((k - 1) % 4) + 1]]) :
                          px \in [1..(n - 1) -> PixelSamples]}}
        : n \in 0..MaxPixels}

InitRepack ==
    /\ thumbnail_data \in RasterBuffers
    /\ rgb_data = <<>>
    /\ ri = 0
    /\ rj = 0
    /\ rpc = "alloc"
    /\ IdleRun
    /\ IdleScale

\* v[idx] of Rust, for idx in range
At(v, idx) == v[idx + 1]

InRange(v, idx) == idx >= 0 /\ idx < Len(v)

\* RepackPixel taking the bytes after the first, not before the last.
RepackPixelShifted(rgb, data, ii, jj) ==
    [rgb EXCEPT ![jj + 1] = At(data, ii + 3),
                ![jj + 2] = At(data, ii + 2),
                ![jj + 3] = At(data, ii + 1)]

\* RepackPixel without the reversal of the channels.
RepackPixelCopied(rgb, data, ii, jj) ==
    [rgb EXCEPT ![jj + 1] = At(data, ii),
                ![jj + 2] = At(data, ii + 1),
                ![jj + 3] = At(data, ii + 2)]

\* lines 161-163: one pixel from thumbnail_data[i..] to rgb_data[j..]
RepackPixel(rgb, data, ii, jj) ==
    [rgb EXCEPT ![jj + 1] = At(data, ii + 2),
                ![jj + 2] = At(data, ii + 1),
                ![jj + 3] = At(data, ii)]

\* lines 156-158
RepackAlloc ==
    /\ rpc = "alloc"
    /\ rgb_data' = Zeros(Len(thumbnail_data) - Len(thumbnail_data) \div 4)
    /\ rj' = 0
    /\ ri' = 0
    /\ rpc' = "loop"
    /\ UNCHANGED thumbnail_data
    /\ UNCHANGED <<run_vars, scale_vars>>

\* lines 160-165: one iteration; an index out of range panics
RepackLoop ==
    /\ rpc = "loop"
    /\ ri < Len(thumbnail_data)
    /\ IF /\ InRange(thumbnail_data, ri + 2)
          /\ InRange(rgb_data, rj + 2)
       THEN /\ rgb_data' = RepackPixel(rgb_data, thumbnail_data, ri, rj)
            /\ rj' = rj + 3
            /\ ri' = ri + 4
            /\ rpc' = "loop"
       ELSE /\ rpc' = "panic"
            /\ UNCHANGED <<rgb_data, ri, rj>>
    /\ UNCHANGED thumbnail_data
    /\ UNCHANGED <<run_vars, scale_vars>>

\* line 160: the range is exhausted
RepackDone ==
    /\ rpc = "loop"
    /\ ri >= Len(thumbnail_data)
    /\ rpc' = "done"
    /\ UNCHANGED <<thumbnail_data, rgb_data, ri, rj>>
    /\ UNCHANGED <<run_vars, scale_vars>>

NextRepack ==
    \/ RepackAlloc
    \/ RepackLoop
    \/ RepackDone

SpecRepack == InitRepack /\ [][NextRepack]_vars

(***************************************************************************)
(* check_dimension, scale_ratio and scale_rect on one pair of dimensions.  *)
(***************************************************************************)
\* 49.5, -0.5 and 2^33
OddDims == {F64Of(0, 99, -1), F64Of(1, 1, -1), F64Of(0, 1, 33)}

ScaleDims == {F64Of(0, n, 0) : n \in 0..MaxDim} \cup {F64Of(0, 500, 0), F64Of(0, 1000, 0)}
             \cup OddDims

ScaleSamples == {F64Zero, F64Of(0, 24, 0), F64Of(0, 1000, 0)} \cup OddDims

InitScale ==
    /\ dim_w \in ScaleDims
    /\ dim_h \in ScaleDims
    /\ dim_w = dim_h \/ dim_w \in ScaleSamples \/ dim_h \in ScaleSamples
    /\ spc = "render_thumbnail"
    /\ scaled = [ok |-> FALSE, cause |-> "", ratio |-> F64Zero, thumb |-> <<U32Of(0), U32Of(0)>>]
    /\ IdleRun
    /\ IdleRepack

\* lines 131-136
ThumbnailGeometry ==
    /\ spc = "render_thumbnail"
    /\ scaled' = thumbnail_geometry(dim_w, dim_h)
    /\ spc' = IF scaled'.ok THEN "image_surface" ELSE "failed"
    /\ UNCHANGED <<dim_w, dim_h>>
    /\ UNCHANGED <<run_vars, repack_vars>>

NextScale == ThumbnailGeometry

SpecScale == InitScale /\ [][NextScale]_vars

(***************************************************************************)
(* The claims.                                                             *)
(***************************************************************************)
\* The page numbers given with --pages, <<>> when there are none.
Selection == IF page_numbers # <<>> THEN page_numbers[1] ELSE <<>>

\* n, a u32, is a page number of the document: 1 <= n <= page_count.
InDocument(n) == n[32] = 0 /\ NatOfBits(n) >= 1 /\ NatOfBits(n) <= page_count

SomeOutOfRange == \E k \in DOMAIN Selection : ~InDocument(Selection[k])

\* The run has ended.
Exited == pc = "exit"

\* C1: if --pages holds a page number outside 1..page_count, wherever it
\* stands in the list, the run ends in an error and no .svg or .jpg file has
\* been written for any page.
C1_NoOutputWhenOutOfRange ==
    SomeOutOfRange => /\ files = {}
                      /\ Exited => status # "success"

\* C2: for every page count, 0 included, and every requested page number in
\* the u32 range, a number outside 1..page_count makes the run end with an
\* error, never with success.
C2_OutOfRangeNeverSucceeds ==
    (Exited /\ SomeOutOfRange) => status \in {"failure", "panic"}

\* The page number the loop was given last.
Requested == Selection[Len(Selection) - Len(pages)]

\* C3: the error for an out-of-range page number names the number the user
\* requested.
C3_ErrorNamesRequestedPage ==
    (Exited /\ error.msg = "invalid page number") =>
        /\ error.page >= 0
        /\ U32Of(error.page) = Requested

\* The steps of the log that process a page (all but the loop's own).
PageSteps == {a \in DOMAIN log : log[a].step # "next"}

\* C4, as stated: pages are processed one at a time and in ascending
\* page-number order: a page whose processing starts before another's has
\* the smaller number, and all its steps come first.
C4_AscendingPageOrder ==
    \A a, b \in PageSteps :
        a < b => /\ log[a].k <= log[b].k
                 /\ log[a].k < log[b].k => log[a].i < log[b].i

StepRank(step) ==
    CASE step = "next" -> 0
      [] step = "page" -> 1
      [] step = "bounding_box" -> 2
      [] step = "svg_surface" -> 3
      [] step = "svg_context" -> 4
      [] step = "svg_render" -> 5
      [] step = "check_dimension" -> 6
      [] step = "image_surface" -> 7
      [] step = "image_context" -> 8
      [] step = "image_render" -> 9
      [] step = "take_data" -> 10
      [] step = "save" -> 11

\* The k-th iteration is on the page of index idx: the k-th number given is
\* idx + 1, or idx is k - 1 when no numbers are given.
IterationIsOn(k, idx) ==
    IF page_numbers # <<>> THEN Selection[k] = U32Of(idx + 1) ELSE idx = k - 1

\* C4, amended: pages are processed one at a time, in the order of the
\* selection as given (ascending when there is none): the steps of the k-th
\* page are on the k-th page given, in program order, and all come before
\* the steps of the (k+1)-th.
C4_SelectionOrder ==
    /\ \A a \in PageSteps : IterationIsOn(log[a].k, log[a].i)
    /\ \A a, b \in DOMAIN log :
           a < b => \/ log[a].k < log[b].k
                    \/ /\ log[a].k = log[b].k
                       /\ StepRank(log[a].step) < StepRank(log[b].step)
    /\ page_numbers = <<>> =>
           \A a, b \in PageSteps : (a < b /\ log[a].k < log[b].k) => log[a].i < log[b].i

\* Two pages done, the second with the smaller number.
C4_Witness ==
    \E a, b \in PageSteps :
        /\ a < b
        /\ log[a].step = "save"
        /\ log[b].step = "save"
        /\ log[a].i > log[b].i

\* C5: every error ends the run at once: an error leaves main() at its exit
\* with a non-zero status, and no step is taken after it (no later step of
\* the page, no step of a later page, no file written, no retry).
C5_ErrorAborts ==
    /\ [](error # NoError => (Exited /\ status \in {"failure", "panic"}))
    /\ [](Exited => status # "running")
    /\ [][error = NoError]_vars

\* An error on a page that has files on disk and pages left to process.
C5_Witness ==
    /\ Exited
    /\ status = "failure"
    /\ error.msg = "error rendering thumbnail for page"
    /\ pages # <<>>
    /\ files # {}

\* the pixels of the raster buffer
Pixels == Len(thumbnail_data) \div 4

\* C6: a buffer of 4n bytes is repacked into one of exactly 3n bytes, output
\* bytes 3p, 3p+1, 3p+2 being input bytes 4p+2, 4p+1, 4p; no index is out of
\* range and the input is not modified.
C6_Repacked ==
    /\ [](rpc # "panic")
    /\ [](rpc = "done" =>
            /\ Len(rgb_data) = 3 * Pixels
            /\ \A p \in 0..(Pixels - 1) :
                   /\ At(rgb_data, 3 * p) = At(thumbnail_data, 4 * p + 2)
                   /\ At(rgb_data, 3 * p + 1) = At(thumbnail_data, 4 * p + 1)
                   /\ At(rgb_data, 3 * p + 2) = At(thumbnail_data, 4 * p))
    /\ [][thumbnail_data' = thumbnail_data]_vars

\* A 2 x 2 buffer repacked.
C6_Witness == rpc = "done" /\ Len(thumbnail_data) = 16 /\ Len(rgb_data) = 12

\* C7, as stated: a pixel whose bytes are, in buffer order, [A, R, G, B]
\* is repacked to [R, G, B].
C7_PaddingFirst ==
    (rpc = "done" /\ Pixels = 1) =>
        rgb_data = <<thumbnail_data[2], thumbnail_data[3], thumbnail_data[4]>>

\* C7, amended: a pixel whose bytes are, in buffer order, [B, G, R, A]
\* (blue, green, red, padding) is repacked to [R, G, B].
C7_PaddingLast ==
    (rpc = "done" /\ Pixels = 1) =>
        rgb_data = <<thumbnail_data[3], thumbnail_data[2], thumbnail_data[1]>>

\* One pixel of four different bytes, repacked.
C7_Witness ==
    /\ rpc = "done"
    /\ Pixels = 1
    /\ Cardinality({thumbnail_data[k] : k \in 1..4}) = 4

\* C8: for validated dimensions (w, h) with max(w, h) > 0 the thumbnail's
\* longest side is exactly 512 and its other side at most 512.
C8_LongestSideIs512 ==
    (spc = "image_surface" /\ scaled.ratio # F64Zero) =>
        LET w    == check_dimension(dim_w).value
            h    == check_dimension(dim_h).value
            long == IF BigCmp(w, h) >= 0 THEN scaled.thumb[1] ELSE scaled.thumb[2]
            short == IF BigCmp(w, h) >= 0 THEN scaled.thumb[2] ELSE scaled.thumb[1]
        IN  /\ long = U32Of(MaxThumbnailSide)
            /\ BigCmp(short, U32Of(MaxThumbnailSide)) <= 0

\* The thumbnail of the page being processed has no pixels.
EmptyThumbnail == thumb = <<U32Of(0), U32Of(0)>>

\* C9: a 0 x 0 page has ratio 0 and thumbnail dimensions (0, 0), and its
\* processing ends in an error at surface allocation: it never gets past it,
\* to produce an empty file.
C9_ZeroPageRejected ==
    (width = F64Zero /\ height = F64Zero) =>
        /\ pc \in {"image_surface", "image_context", "image_render", "take_data", "save"} =>
               (ratio = F64Zero /\ EmptyThumbnail)
        /\ pc \notin {"image_context", "image_render", "take_data", "save"}

\* Page n, a u32, has both its files, named by n in decimal, zero-padded to
\* 3 digits.
HasBothFiles(n) ==
    /\ n[32] = 0
    /\ SvgName(NatOfBits(n)) \in files
    /\ JpgName(NatOfBits(n)) \in files

\* C10: a page whose NNN.jpg is written has its NNN.svg written, and a run
\* that ends with status 0 has written both files of every selected page.
C10_BothFiles ==
    /\ \A f \in files : f[2] = "jpg" => <<f[1], "svg">> \in files
    /\ (Exited /\ status = "success") =>
           IF page_numbers # <<>>
           THEN \A k \in DOMAIN Selection : HasBothFiles(Selection[k])
           ELSE \A n \in 1..page_count : HasBothFiles(U32Of(n))

====
